---- MODULE Spec2Model ----
(***************************************************************************)
(* Feature pipeline of the movie recommender: the in-memory streaming      *)
(* feature accumulator (services/feature_engineering), the Kafka consumer  *)
(* loop (streaming/consumer.py), the Feast feature-store service           *)
(* (services/feast_service, features/feast_client.py) and the feature      *)
(* gateway of the serving service (services/serving/service.py).           *)
(*                                                                         *)
(* The processes share no state, so each has a specification of its own    *)
(* over the module's variables; the variables of the other processes keep  *)
(* their initial values in it:                                             *)
(*   Spec          the feature-engineering service and one HTTP client     *)
(*   SpecWorkers   the same service under concurrent event deliveries      *)
(*   SpecConsumer  the Kafka consumer loop                                 *)
(*   SpecStore     the Feast service, the online store and the gateway     *)
(***************************************************************************)
EXTENDS Integers, Sequences, FiniteSets, TLC

(***************************************************************************)
(* Bounds of the model.                                                    *)
(***************************************************************************)
\* events the feature-engineering service accepts in one behaviour
MaxEvents == 3
\* concurrent event-delivery workers
NumWorkers == 2
\* consumer.py resets its window every 1000 events; the model every WindowEvents
WindowEvents == 3
\* failed gateway fetches counted in one behaviour
MaxUnavailable == 2
\* largest counter value a client sends along to /feast/stream/update
MaxPushed == 2
\* days the clock of the Feast service runs on
MaxNow == 2
\* users and movies of the loaded dataset (dataset.interactions_shape())
n_users == 2
n_movies == 2
\* largest absolute score model.predict yields
MaxScore == 1
\* largest activity counter pushed to the store while the boost is exercised
MaxActivity == 21
\* rows of the ratings file a batch run compiles, and rows while the quality
\* score is exercised
MaxRatings == 2
MaxQualityRatings == 4
\* bits of the significand of a float (float64 has 53)
MantissaBits == 8
\* how many floats next to 1 on either side of 0 model.predict may yield
CloseSteps == 2

\* service.py: min(recent_activity, 20) * 0.01, the rate as RATE / 100, and
\* the largest n_recommendations accepted
CAP == 20
\* requests.get(..., timeout=1), in seconds
TIMEOUT == 1
RATE == 1
MaxRecommendations == 100

\* entity ids a client can send: any integer, also a negative one
Ids == {-1, 0, 1}
Workers == 1 .. NumWorkers
EventTypes == {"rating", "view", "click", "search"}
Genres == {"Action", "Drama"}

\* Python's None and the source's 'Unknown'
None == "None"
Unknown == "Unknown"

(***************************************************************************)
(* Python dictionaries are functions whose DOMAIN is the key set.          *)
(***************************************************************************)
EmptyDict == <<>>

\* d.get(k, default): no entry is created
Get(d, k, default) == IF k \in DOMAIN d THEN d[k] ELSE default

\* d[k] = v
Put(d, k, v) == [x \in (DOMAIN d) \cup {k} |-> IF x = k THEN v ELSE d[x]]

\* d[k] on a defaultdict(int): a miss creates the entry with int() = 0
Touch(d, k) == IF k \in DOMAIN d THEN d ELSE Put(d, k, 0)

\* d[k] += 1 on a defaultdict(int)
IncrementTwice(d, k) == Put(d, k, Touch(d, k)[k] + 2)
IncrementAssigns(d, k) == Put(d, k, 1)
IncrementDecaying(d, k) ==
    [x \in (DOMAIN d) \cup {k} |->
        IF x = k THEN Touch(d, k)[k] + 1 ELSE IF d[x] > 0 THEN d[x] - 1 ELSE 0]
Increment(d, k) == Put(d, k, Touch(d, k)[k] + 1)

\* sum(d.values())
RECURSIVE SumValues(_)
SumValues(d) ==
    IF DOMAIN d = {} THEN 0
    ELSE LET k == CHOOSE x \in DOMAIN d : TRUE
         IN d[k] + SumValues([x \in (DOMAIN d) \ {k} |-> d[x]])

(***************************************************************************)
(* The floats of numpy: a float is [m, e], the number m * 2^e with m = 0   *)
(* or 2^(MantissaBits-1) <= |m| < 2^MantissaBits, which is float32 and     *)
(* float64 with a shorter significand; every operation is rounded to the   *)
(* nearest float, ties to even.                                            *)
(***************************************************************************)
Pow2(k) == IF k <= 0 THEN 1 ELSE 2 ^ k

\* the float nearest to num / den * 2^e, for den > 0
RECURSIVE Round(_, _, _)
Round(num, den, e) ==
    IF num = 0 THEN [m |-> 0, e |-> 0]
    ELSE IF num < 0
    THEN LET r == Round(-num, den, e) IN [m |-> -r.m, e |-> r.e]
    ELSE IF num >= Pow2(MantissaBits) * den THEN Round(num, 2 * den, e + 1)
    ELSE IF num < Pow2(MantissaBits - 1) * den THEN Round(2 * num, den, e - 1)
    ELSE LET q == num \div den
             r == num % den
             m == IF 2 * r > den \/ (2 * r = den /\ q % 2 = 1) THEN q + 1 ELSE q
         IN IF m = Pow2(MantissaBits)
            THEN [m |-> Pow2(MantissaBits - 1), e |-> e + 1]
            ELSE [m |-> m, e |-> e]

\* a float as the fraction Num / Den
Num(x) == x.m * Pow2(x.e)
Den(x) == Pow2(-x.e)

FromInt(n) == Round(n, 1, 0)

\* x + y, x * y, and x / y for y > 0
Add(x, y) ==
    LET e == IF x.e < y.e THEN x.e ELSE y.e
    IN Round(x.m * Pow2(x.e - e) + y.m * Pow2(y.e - e), 1, e)
\* the product of two significands has 2 * MantissaBits digits or one less
Mul(x, y) ==
    LET p == x.m * y.m
        k == IF p >= Pow2(2 * MantissaBits - 1) \/ -p >= Pow2(2 * MantissaBits - 1)
             THEN MantissaBits ELSE MantissaBits - 1
    IN Round(p, Pow2(k), x.e + y.e + k)
Div(x, y) == Round(x.m, y.m, x.e - y.e)

\* x <= y
LessEq(x, y) ==
    LET e == IF x.e < y.e THEN x.e ELSE y.e
    IN x.m * Pow2(x.e - e) <= y.m * Pow2(y.e - e)

VARIABLES
    \* services/feature_engineering
    stream_features,    \* FeatureEngineer.stream_features of the shared engineer
    conn,               \* per HTTP client: idle, a request in flight, or its response
    n_applied,          \* history: per user id, the events the endpoint accepted
    n_attention,        \* history: per movie id, the view/click events it accepted
    \* streaming/consumer.py
    event_count,        \* events consumed
    user_activity,      \* user_idx -> event count of the window
    event_types_count,  \* event_type -> events consumed
    movie_popularity,   \* movie_idx -> view count of the window
    \* services/feast_service and the online store behind it
    online,             \* feature view -> entity id -> stored row
    redis_up,           \* whether the online store answers
    \* services/serving
    feast_unavailable,  \* ERROR_COUNT.labels(type='feast_unavailable')
    scores,             \* model.predict for the requesting user: movie_idx -> score
    rec,                \* the last call of recommend and how it ended
    pending,            \* the requests.get of get_feast_features in flight
    \* the outcome of the last call: an HTTP reply of the Feast service, or
    \* what get_feast_features returned
    reply,
    \* services/feast_service: per administrator, the materialize request in
    \* flight and how far its run has come
    job,
    now,                \* datetime.now() of the Feast service, in days
    \* services/feature_engineering: POST /features/batch
    ratings_df,         \* the rows of the ratings file, in file order
    batch_features      \* what compute_batch_features returned last

accVars == <<stream_features, conn, n_applied, n_attention>>
consumerVars == <<event_count, user_activity, event_types_count, movie_popularity>>
storeVars == <<online, redis_up>>
gatewayVars == <<feast_unavailable>>
servingVars == <<scores, rec, pending>>
jobVars == <<job, now>>
batchVars == <<ratings_df, batch_features>>
vars == <<accVars, consumerVars, storeVars, gatewayVars, reply, servingVars, jobVars,
          batchVars>>

(***************************************************************************)
(* services/feature_engineering: FeatureEngineer                           *)
(***************************************************************************)
\* FeatureEngineer.__init__
NewStreamFeatures ==
    [user_recent_activity |-> EmptyDict,
     movie_popularity     |-> EmptyDict,
     user_last_genre      |-> EmptyDict,
     movie_recent_views   |-> EmptyDict]

\* line 231: event_type in ['view', 'click']
IsAttentionOrRating(event_type) == event_type \in {"view", "click", "rating"}
IsAttention(event_type) == event_type \in {"view", "click"}

\* lines 235-237: if 'genres' in event
CarriesGenres(event) == "genres" \in DOMAIN event

\* state of the engineer after update_stream_features(event), the reads of the
\* returned dictionary (lines 243-246) included: movie_popularity[movie_idx] and
\* movie_recent_views[movie_idx] are defaultdict reads, which create the entry
UpdateStreamFeatures(sf, event) ==
    LET user_idx == event.user_idx
        movie_idx == event.movie_idx
        activity == Increment(sf.user_recent_activity, user_idx)
        popularity ==
            IF IsAttention(event.event_type)
            THEN Increment(sf.movie_popularity, movie_idx)
            ELSE sf.movie_popularity
        views ==
            IF IsAttention(event.event_type)
            THEN Increment(sf.movie_recent_views, movie_idx)
            ELSE sf.movie_recent_views
        genre ==
            IF CarriesGenres(event)
            THEN Put(sf.user_last_genre, user_idx, event.genres)
            ELSE sf.user_last_genre
    IN [user_recent_activity |-> activity,
        movie_popularity     |-> Touch(popularity, movie_idx),
        user_last_genre      |-> genre,
        movie_recent_views   |-> Touch(views, movie_idx)]

\* the dictionary update_stream_features returns, read from the updated state
UpdatedFeatures(sf, event) ==
    [user_idx             |-> event.user_idx,
     movie_idx            |-> event.movie_idx,
     user_recent_activity |-> sf.user_recent_activity[event.user_idx],
     movie_popularity     |-> sf.movie_popularity[event.movie_idx],
     movie_recent_views   |-> sf.movie_recent_views[event.movie_idx],
     user_last_genre      |-> Get(sf.user_last_genre, event.user_idx, Unknown)]

\* get_user_stream_features; its reads are dict.get, which create no entry
AfterGetUserStreamFeaturesIndexing(sf, user_idx) ==
    [sf EXCEPT !.user_recent_activity = Touch(@, user_idx)]
AfterGetUserStreamFeatures(sf, user_idx) == sf
GetUserStreamFeatures(sf, user_idx) ==
    [user_idx             |-> user_idx,
     user_recent_activity |-> Get(sf.user_recent_activity, user_idx, 0),
     user_last_genre      |-> Get(sf.user_last_genre, user_idx, Unknown)]

\* get_movie_stream_features; its reads are dict.get, which create no entry
AfterGetMovieStreamFeatures(sf, movie_idx) == sf
GetMovieStreamFeatures(sf, movie_idx) ==
    [movie_idx          |-> movie_idx,
     movie_popularity   |-> Get(sf.movie_popularity, movie_idx, 0),
     movie_recent_views |-> Get(sf.movie_recent_views, movie_idx, 0)]

(***************************************************************************)
(* services/feature_engineering/app.py: the HTTP endpoints over the one    *)
(* module-level engineer.  Every endpoint is an `async def` whose body     *)
(* never awaits, so the event loop runs each handler to completion: a      *)
(* handler is one atomic step, taken while other requests are in flight.   *)
(***************************************************************************)
Idle == [kind |-> "idle"]
Request(body) == [kind |-> "req", body |-> body]
Response(op, status, content) ==
    [kind |-> "resp", op |-> op, status |-> status, content |-> content]

\* JSON bodies a client can POST to /features/stream; `genres` is optional.
\* (`timestamp`, a required float no handler reads, is left out.)
StreamEventBodies ==
    [user_idx : Ids, movie_idx : Ids, event_type : EventTypes]
    \cup [user_idx : Ids, movie_idx : Ids, event_type : EventTypes, genres : Genres]

\* StreamEventRequest: user_idx and movie_idx are Field(..., ge=0)
StreamEventRequestValid(body) == body.user_idx >= 0 /\ body.movie_idx >= 0

\* event.dict(): every declared field is a key, an omitted Optional one with None
EventDict(body) ==
    [user_idx   |-> body.user_idx,
     movie_idx  |-> body.movie_idx,
     event_type |-> body.event_type,
     genres     |-> IF "genres" \in DOMAIN body THEN body.genres ELSE None]

InFlight == {w \in Workers : conn[w].kind = "req"}

\* a client sends POST /features/stream
PostStreamEvent(w, body) ==
    /\ conn[w] = Idle
    /\ SumValues(stream_features.user_recent_activity) + Cardinality(InFlight)
           < MaxEvents
    /\ conn' = [conn EXCEPT ![w] = Request(body)]
    /\ UNCHANGED <<stream_features, n_applied, n_attention,
                   consumerVars, batchVars, servingVars, jobVars, storeVars, gatewayVars, reply>>

\* POST /features/stream: validation of the body, then update_stream_features
UpdateStreamFeaturesEndpoint(w) ==
    /\ conn[w].kind = "req"
    /\ LET body == conn[w].body IN
       IF ~StreamEventRequestValid(body)
       THEN /\ conn' = [conn EXCEPT ![w] = Response("stream", 422, "rejected")]
            /\ UNCHANGED <<stream_features, n_applied, n_attention,
                   consumerVars, batchVars, servingVars, jobVars, storeVars, gatewayVars, reply>>
       ELSE LET event == EventDict(body)
                sf == UpdateStreamFeatures(stream_features, event)
            IN /\ stream_features' = sf
               /\ conn' = [conn EXCEPT
                     ![w] = Response("stream", 200, UpdatedFeatures(sf, event))]
               /\ n_applied' =
                     [n_applied EXCEPT ![body.user_idx] = @ + 1]
               /\ n_attention' =
                     IF body.event_type \in {"view", "click"}
                     THEN [n_attention EXCEPT ![body.movie_idx] = @ + 1]
                     ELSE n_attention
               /\ UNCHANGED <<consumerVars, batchVars, servingVars, jobVars, storeVars, gatewayVars, reply>>

\* GET /features/user/{user_idx}
GetUserFeaturesEndpoint(w, user_idx) ==
    /\ conn[w] = Idle
    /\ conn' = [conn EXCEPT
          ![w] = Response("user", 200,
                          GetUserStreamFeatures(stream_features, user_idx))]
    /\ stream_features' = AfterGetUserStreamFeatures(stream_features, user_idx)
    /\ UNCHANGED <<n_applied, n_attention, consumerVars, batchVars, servingVars, jobVars, storeVars, gatewayVars, reply>>

\* GET /features/movie/{movie_idx}
GetMovieFeaturesEndpoint(w, movie_idx) ==
    /\ conn[w] = Idle
    /\ conn' = [conn EXCEPT
          ![w] = Response("movie", 200,
                          GetMovieStreamFeatures(stream_features, movie_idx))]
    /\ stream_features' = AfterGetMovieStreamFeatures(stream_features, movie_idx)
    /\ UNCHANGED <<n_applied, n_attention, consumerVars, batchVars, servingVars, jobVars, storeVars, gatewayVars, reply>>

\* the body of GET /features/stats without its timestamp
GetFeatureStats(sf) ==
    [active_users      |-> Cardinality(DOMAIN sf.user_recent_activity),
     active_movies     |-> Cardinality(DOMAIN sf.movie_popularity),
     total_user_events |-> SumValues(sf.user_recent_activity),
     total_movie_views |-> SumValues(sf.movie_popularity)]

\* stream_features_cached of GET /health
HealthCheck(sf) ==
    [users  |-> Cardinality(DOMAIN sf.user_recent_activity),
     movies |-> Cardinality(DOMAIN sf.movie_popularity)]

\* GET /features/stats
GetFeatureStatsEndpoint(w) ==
    /\ conn[w] = Idle
    /\ conn' = [conn EXCEPT
          ![w] = Response("stats", 200, GetFeatureStats(stream_features))]
    /\ UNCHANGED <<stream_features, n_applied, n_attention,
                   consumerVars, batchVars, servingVars, jobVars, storeVars, gatewayVars, reply>>

\* GET /health
HealthCheckEndpoint(w) ==
    /\ conn[w] = Idle
    /\ conn' = [conn EXCEPT
          ![w] = Response("health", 200, HealthCheck(stream_features))]
    /\ UNCHANGED <<stream_features, n_applied, n_attention,
                   consumerVars, batchVars, servingVars, jobVars, storeVars, gatewayVars, reply>>

\* the client has read its response
Receive(w) ==
    /\ conn[w].kind = "resp"
    /\ conn' = [conn EXCEPT ![w] = Idle]
    /\ UNCHANGED <<stream_features, n_applied, n_attention,
                   consumerVars, batchVars, servingVars, jobVars, storeVars, gatewayVars, reply>>

ValidIds == {i \in Ids : i >= 0}

InitAccumulator ==
    /\ stream_features = NewStreamFeatures
    /\ conn = [w \in Workers |-> Idle]
    /\ n_applied = [u \in ValidIds |-> 0]
    /\ n_attention = [m \in ValidIds |-> 0]

(***************************************************************************)
(* streaming/consumer.py: the consumer loop                                *)
(***************************************************************************)
\* message.value: what a producer put on the topic; nothing checks it
KafkaEvents == [user_idx : Ids, movie_idx : Ids, event_type : EventTypes]

\* the loop stops being followed after two windows
MaxConsumed == 2 * WindowEvents

\* lines 59-64: dict.clear()
ClearForgotten(d) == d
Clear(d) == EmptyDict

\* one iteration of `for message in consumer` (lines 30-64); recent_events
\* and the two summaries only print, and are left out
Consume(event) ==
    /\ event_count < MaxConsumed
    /\ LET count == event_count + 1
           activity == Increment(user_activity, event.user_idx)
           popularity ==
               IF event.event_type \in {"view", "click"}
               THEN Increment(movie_popularity, event.movie_idx)
               ELSE movie_popularity
       IN /\ event_count' = count
          /\ event_types_count' = Increment(event_types_count, event.event_type)
          /\ IF count % WindowEvents = 0
             THEN /\ user_activity' = Clear(activity)
                  /\ movie_popularity' = Clear(popularity)
             ELSE /\ user_activity' = activity
                  /\ movie_popularity' = popularity
    /\ UNCHANGED <<accVars, storeVars, gatewayVars, reply, servingVars, jobVars, batchVars>>

InitConsumer ==
    /\ event_count = 0
    /\ user_activity = EmptyDict
    /\ event_types_count = EmptyDict
    /\ movie_popularity = EmptyDict

(***************************************************************************)
(* features/feast_client.py: FeastClient over the online store.  A stored  *)
(* value is Some(x); a feature the store has no row for is read as Null    *)
(* (Python's None in the returned frame).  A call that raises yields       *)
(* Raise.                                                                  *)
(***************************************************************************)
Null == [null |-> TRUE]
Some(x) == [v |-> x]
Raise == [raised |-> TRUE, value |-> EmptyDict]
Return(x) == [raised |-> FALSE, value |-> x]

\* features/feature_repo/features.py: the four feature views
FeatureViews ==
    {"user_batch_features", "movie_batch_features",
     "user_stream_features", "movie_stream_features"}

\* the compiled batch output the file sources point at (sample rows: user 0
\* and movie 0 were in the interaction log, the other ids were not)
OfflineStore ==
    [user_batch_features |->
        (0 :> [user_avg_rating |-> 4, user_rating_count |-> 2,
               user_favorite_genre |-> "Drama", event_timestamp |-> 0]),
     movie_batch_features |->
        (0 :> [movie_avg_rating |-> 4, movie_rating_count |-> 2,
               movie_popularity_score |-> 1, event_timestamp |-> 0])]

\* FeastClient.__init__: an online store nothing was written to
NewOnlineStore == [view \in FeatureViews |-> EmptyDict]

\* store.materialize(start_date, end_date, feature_views=[...]): the rows of
\* the source whose event_timestamp lies in the range overwrite the rows of
\* the same entities
InRange(view, start, end) ==
    { id \in DOMAIN OfflineStore[view] :
        /\ start <= OfflineStore[view][id].event_timestamp
        /\ OfflineStore[view][id].event_timestamp <= end }

StoreMaterializeReplacing(store, views, start, end) ==
    [view \in FeatureViews |->
        IF view \in views
        THEN [id \in InRange(view, start, end) |-> OfflineStore[view][id]]
        ELSE store[view]]
StoreMaterializeNothing(store, views, start, end) == store
StoreMaterialize(store, views, start, end) ==
    [view \in FeatureViews |->
        IF view \in views
        THEN [id \in (DOMAIN store[view]) \cup InRange(view, start, end) |->
                 IF id \in InRange(view, start, end)
                 THEN OfflineStore[view][id] ELSE store[view][id]]
        ELSE store[view]]

\* materialize_batch_features, lines 42-46: the range of the run (a year is
\* scaled to Year days)
Year == 1
EndDate(end_date, today) == IF end_date = Null THEN today ELSE end_date.v
StartDate(start_date, end) == IF start_date = Null THEN end - Year ELSE start_date.v

\* the views one run writes, in the order store.materialize writes them
BatchViews == <<"user_batch_features", "movie_batch_features">>

\* materialize_batch_features: one store.materialize over both batch views
MaterializeBatchFeatures(store, start_date, end_date, today) ==
    LET end == EndDate(end_date, today) IN
    StoreMaterialize(store, {BatchViews[i] : i \in DOMAIN BatchViews},
                     StartDate(start_date, end), end)

\* push_stream_features: store.push of a one-row frame to the online store
PushStreamFeatures(store, feature_view_name, id, row) ==
    [store EXCEPT ![feature_view_name] = Put(@, id, row)]

\* store.get_online_features(...).to_df(): one row per entity row, a column
\* per requested feature, None where the store holds no row of the view
MissingRowRaises(store, up, feature_refs, key, ids) ==
    IF \/ ~up
       \/ \E i \in DOMAIN ids, ref \in feature_refs : ids[i] \notin DOMAIN store[ref[1]]
    THEN Raise
    ELSE Return([i \in DOMAIN ids |->
            [c \in {key} \cup {ref[2] : ref \in feature_refs} |->
                IF c = key THEN Some(ids[i])
                ELSE LET ref == CHOOSE r \in feature_refs : r[2] = c
                     IN Some(store[ref[1]][ids[i]][c])]])
GetOnlineFeaturesBatchOnly(store, up, feature_refs, key, ids) ==
    IF ~up THEN Raise
    ELSE Return([i \in DOMAIN ids |->
            [c \in {key} \cup {ref[2] : ref \in feature_refs} |->
                IF c = key THEN Some(ids[i])
                ELSE LET ref == CHOOSE r \in feature_refs : r[2] = c
                     IN IF /\ ids[i] \in DOMAIN store[ref[1]]
                           /\ ref[1] \in {"user_batch_features", "movie_batch_features"}
                        THEN Some(store[ref[1]][ids[i]][c])
                        ELSE Null]])
GetOnlineFeatures(store, up, feature_refs, key, ids) ==
    IF ~up THEN Raise
    ELSE Return([i \in DOMAIN ids |->
            [c \in {key} \cup {ref[2] : ref \in feature_refs} |->
                IF c = key THEN Some(ids[i])
                ELSE LET ref == CHOOSE r \in feature_refs : r[2] = c
                     IN IF ids[i] \in DOMAIN store[ref[1]]
                        THEN Some(store[ref[1]][ids[i]][c])
                        ELSE Null]])

UserServingRefs ==
    {<<"user_batch_features", "user_avg_rating">>,
     <<"user_batch_features", "user_rating_count">>,
     <<"user_batch_features", "user_favorite_genre">>,
     <<"user_stream_features", "user_recent_activity">>,
     <<"user_stream_features", "user_last_genre">>}

MovieServingRefs ==
    {<<"movie_batch_features", "movie_avg_rating">>,
     <<"movie_batch_features", "movie_rating_count">>,
     <<"movie_batch_features", "movie_popularity_score">>,
     <<"movie_stream_features", "movie_popularity">>,
     <<"movie_stream_features", "movie_recent_views">>}

\* features.iloc[0].to_dict() if len(features) > 0 else {}
FirstRowOrEmpty(features) ==
    IF features.raised THEN Raise
    ELSE IF Len(features.value) > 0 THEN Return(features.value[1])
    ELSE Return(EmptyDict)

\* get_user_features_for_serving
GetUserFeaturesForServing(store, up, user_id) ==
    FirstRowOrEmpty(
        GetOnlineFeatures(store, up, UserServingRefs, "user_idx", <<user_id>>))

\* get_movie_features_for_serving
GetMovieFeaturesForServing(store, up, movie_id) ==
    FirstRowOrEmpty(
        GetOnlineFeatures(store, up, MovieServingRefs, "movie_idx", <<movie_id>>))

\* update_stream_feature_from_event; datetime.fromtimestamp raises TypeError
\* on a timestamp that is no number, store.push raises when the store is down
UpdateStreamFeatureFromEvent(store, up, event) ==
    IF event.timestamp # "float" \/ ~up THEN Raise
    ELSE LET user_row ==
                 [user_recent_activity |-> Get(event, "user_recent_activity", 1),
                  user_last_genre      |-> Get(event, "genres", Unknown)]
             movie_row ==
                 [movie_popularity   |-> Get(event, "movie_popularity", 1),
                  movie_recent_views |-> Get(event, "movie_recent_views", 1)]
             pushed == PushStreamFeatures(store, "user_stream_features",
                                          event.user_idx, user_row)
         IN IF event.event_type \in {"view", "click"}
            THEN Return(PushStreamFeatures(pushed, "movie_stream_features",
                                           event.movie_idx, movie_row))
            ELSE Return(pushed)

(***************************************************************************)
(* services/feast_service/app.py: the endpoints of the Feast service       *)
(***************************************************************************)
HttpReply(op, id, status, features) ==
    [op |-> op, id |-> id, status |-> status, features |-> features]

\* the `event` dictionaries a client can POST to /feast/stream/update: an
\* event alone, or merged with the counters the accumulator returned; the
\* timestamp is a float, or the ISO string of the accumulator's answer
TimestampKinds == {"float", "isoformat"}

EventsAlone ==
    [user_idx : Ids, movie_idx : Ids, event_type : EventTypes,
     timestamp : TimestampKinds]
    \cup [user_idx : Ids, movie_idx : Ids, event_type : EventTypes,
          timestamp : TimestampKinds, genres : Genres]

EventsMerged ==
    [user_idx : Ids, movie_idx : Ids, event_type : EventTypes,
     timestamp : TimestampKinds,
     user_recent_activity : {MaxPushed}, movie_popularity : {MaxPushed}]

StreamUpdateEvents == EventsAlone \cup EventsMerged

\* GET /feast/user/{user_id}
FeastGetUserFeatures(user_id) ==
    /\ LET features == GetUserFeaturesForServing(online, redis_up, user_id) IN
       reply' = IF features.raised
                THEN HttpReply("user", user_id, 500, EmptyDict)
                ELSE HttpReply("user", user_id, 200, features.value)
    /\ UNCHANGED <<online, redis_up, accVars, consumerVars, batchVars, servingVars, jobVars, gatewayVars>>

\* GET /feast/movie/{movie_id}
FeastGetMovieFeatures(movie_id) ==
    /\ LET features == GetMovieFeaturesForServing(online, redis_up, movie_id) IN
       reply' = IF features.raised
                THEN HttpReply("movie", movie_id, 500, EmptyDict)
                ELSE HttpReply("movie", movie_id, 200, features.value)
    /\ UNCHANGED <<online, redis_up, accVars, consumerVars, batchVars, servingVars, jobVars, gatewayVars>>

\* POST /feast/stream/update: request.event is any dictionary
FeastUpdateStreamFeature(event) ==
    /\ LET updated == UpdateStreamFeatureFromEvent(online, redis_up, event) IN
       IF updated.raised
       THEN /\ reply' = HttpReply("update", event.user_idx, 500, EmptyDict)
            /\ UNCHANGED online
       ELSE /\ reply' = HttpReply("update", event.user_idx, 200, EmptyDict)
            /\ online' = updated.value
    /\ UNCHANGED <<redis_up, accVars, consumerVars, batchVars, servingVars, jobVars, gatewayVars>>

(***************************************************************************)
(* scripts: the two clients that apply an event to the accumulator and     *)
(* then push it to the Feast service.  A script runs alone and waits for   *)
(* each answer, so one run is one step; the GET that ends it changes       *)
(* nothing.                                                                *)
(***************************************************************************)
\* the event of a script: ids, event type, time.time() and a genres text
ScriptEvents ==
    [user_idx : ValidIds, movie_idx : ValidIds, event_type : EventTypes,
     timestamp : {"float"}, genres : Genres]

\* {**event, **result['features']}: the keys of the answer of
\* /features/stream override those of the event, its 'timestamp' is
\* datetime.now().isoformat()
MergedWithFeatures(event, sf) ==
    (UpdatedFeatures(sf, event) @@ [timestamp |-> "isoformat"]) @@ event

\* POST /features/stream with the event, then POST /feast/stream/update with
\* what the script pushes
ApplyThenPush(event, pushed(_)) ==
    /\ LET sf == UpdateStreamFeatures(stream_features, EventDict(event))
           updated == UpdateStreamFeatureFromEvent(online, redis_up, pushed(sf))
       IN /\ stream_features' = sf
          /\ n_applied' = [n_applied EXCEPT ![event.user_idx] = @ + 1]
          /\ n_attention' =
                IF event.event_type \in {"view", "click"}
                THEN [n_attention EXCEPT ![event.movie_idx] = @ + 1]
                ELSE n_attention
          /\ IF updated.raised
             THEN /\ reply' = HttpReply("update", event.user_idx, 500, EmptyDict)
                  /\ UNCHANGED online
             ELSE /\ reply' = HttpReply("update", event.user_idx, 200, EmptyDict)
                  /\ online' = updated.value
    /\ UNCHANGED <<conn, redis_up, consumerVars, batchVars, servingVars, jobVars,
                   gatewayVars>>

\* scripts/feast_workflow.py simulate_stream_event: the event alone is pushed
SimulateStreamEvent(event) ==
    /\ SumValues(stream_features.user_recent_activity) < MaxEvents
    /\ LET pushed(sf) == event IN ApplyThenPush(event, pushed)

\* scripts/test_e2e_pipeline.py test_step_6_streaming: the event merged
\* with the counters the accumulator returned is pushed
TestStep6Streaming(event) ==
    /\ SumValues(stream_features.user_recent_activity) < MaxEvents
    /\ LET pushed(sf) == MergedWithFeatures(event, sf) IN ApplyThenPush(event, pushed)

\* POST /feast/materialize with start_date and end_date left out
FeastMaterialize ==
    /\ IF ~redis_up
       THEN /\ reply' = HttpReply("materialize", 0, 500, EmptyDict)
            /\ UNCHANGED online
       ELSE /\ reply' = HttpReply("materialize", 0, 200, EmptyDict)
            /\ online' = MaterializeBatchFeatures(online, Null, Null, now)
    /\ UNCHANGED <<redis_up, accVars, consumerVars, batchVars, servingVars, jobVars, gatewayVars>>

\* the online store stops answering, or answers again
RedisFails ==
    /\ redis_up
    /\ redis_up' = FALSE
    /\ UNCHANGED <<online, reply, accVars, consumerVars, batchVars, servingVars, jobVars, gatewayVars>>

RedisRecovers ==
    /\ ~redis_up
    /\ redis_up' = TRUE
    /\ UNCHANGED <<online, reply, accVars, consumerVars, batchVars, servingVars, jobVars, gatewayVars>>

(***************************************************************************)
(* services/serving/service.py: get_feast_features, the feature gateway    *)
(***************************************************************************)
FEAST_ENABLED == TRUE

\* what requests.get does: it returns the reply of the Feast service, or it
\* raises (a timeout after 1 s, a refused connection)
NetOutcomes == {"reply", "timeout", "connection_error"}

\* get_feast_features(user_idx): what it returns, and whether it counted
\* the call as feast_unavailable
GetFeastFeatures(store, up, user_idx, net) ==
    IF ~FEAST_ENABLED THEN [features |-> EmptyDict, counted |-> FALSE, status |-> 0]
    ELSE IF net # "reply"
    THEN [features |-> EmptyDict, counted |-> TRUE, status |-> 0]
    ELSE LET served == GetUserFeaturesForServing(store, up, user_idx) IN
         IF ~served.raised
         THEN [features |-> served.value, counted |-> FALSE, status |-> 200]
         ELSE [features |-> EmptyDict, counted |-> FALSE, status |-> 500]

\* a serving request calls the gateway for user_idx
GatewayFetch(user_idx, net) ==
    /\ LET got == GetFeastFeatures(online, redis_up, user_idx, net) IN
       /\ got.counted => feast_unavailable < MaxUnavailable
       /\ feast_unavailable' = feast_unavailable + (IF got.counted THEN 1 ELSE 0)
       /\ reply' = [op |-> "gateway", id |-> user_idx, net |-> net,
                    status |-> got.status, features |-> got.features]
    /\ UNCHANGED <<storeVars, accVars, consumerVars, batchVars, servingVars, jobVars>>

(***************************************************************************)
(* services/serving/service.py: MovieRecommenderService.recommend.  The    *)
(* scores of model.predict and the boost factor are floats; the metrics    *)
(* other than feast_unavailable are left out.                              *)
(***************************************************************************)
Movies == 0 .. n_movies - 1
BaseScores == {FromInt(score) : score \in -MaxScore .. MaxScore}

\* train_df: the movies each user rated (user 0 rated movie 0)
Rated(user_idx) == IF user_idx = 0 THEN {0} ELSE {}

Min(a, b) == IF a < b THEN a ELSE b

\* the floats 1 and 0.01
One == FromInt(1)
Hundredth == Round(RATE, 100, 0)

\* boost_factor = 1 + (min(recent_activity, 20) * 0.01)
FactorUncapped(recent_activity) ==
    Add(One, Mul(FromInt(recent_activity), Hundredth))
FactorFlat(recent_activity) == One
Factor(recent_activity) ==
    Add(One, Mul(FromInt(Min(recent_activity, CAP)), Hundredth))

\* lines 177-183: the factor the scores are multiplied by, 1 where they are
\* left alone; `None > 0` raises TypeError
BoostFactor(feast_features) ==
    IF feast_features = EmptyDict THEN Return(One)
    ELSE LET recent_activity ==
                 Get(feast_features, "user_recent_activity", Some(0))
         IN IF recent_activity = Null THEN Raise
            ELSE IF recent_activity.v > 0 THEN Return(Factor(recent_activity.v))
            ELSE Return(One)

\* scores * boost_factor
Boosted(base, factor) ==
    [movie_idx \in DOMAIN base |-> Mul(base[movie_idx], factor)]

\* lines 186-190: the (movie_idx, score) of the movies to recommend
Candidates(sc, user_movies) ==
    {[movie_idx |-> movie_idx, score |-> sc[movie_idx]] :
        movie_idx \in DOMAIN sc \ user_movies}

\* recommendations.sort(key=lambda x: x[1], reverse=True): the sort is
\* stable, equal scores stay in the order of movie_idx
RECURSIVE Ranked(_)
Ranked(recommendations) ==
    IF recommendations = {} THEN <<>>
    ELSE LET best == CHOOSE r \in recommendations : \A o \in recommendations :
                        \/ ~LessEq(r.score, o.score)
                        \/ (r.score = o.score /\ r.movie_idx <= o.movie_idx)
         IN <<best>> \o Ranked(recommendations \ {best})

\* recommendations[:n_recommendations]
TopN(recommendations, n) == SubSeq(recommendations, 1, Min(n, Len(recommendations)))

\* the validation of lines 146-157: the label of the error, or "none"
InputErrorUnbounded(user_idx, n_recommendations) ==
    IF user_idx < 0 THEN "invalid_input"
    ELSE IF user_idx >= n_users THEN "user_not_found"
    ELSE IF n_recommendations < 1 THEN "invalid_input"
    ELSE "none"

InputError(user_idx, n_recommendations) ==
    IF user_idx < 0 THEN "invalid_input"
    ELSE IF user_idx >= n_users THEN "user_not_found"
    ELSE IF n_recommendations < 1 \/ n_recommendations > MaxRecommendations
    THEN "invalid_input"
    ELSE "none"

NotFetched == [features |-> EmptyDict, counted |-> FALSE, status |-> 0]

\* lines 164-220 once the features are there
Recommendations(base, feast_features, user_idx, n_recommendations, exclude_rated) ==
    LET boost_factor == BoostFactor(feast_features)
        user_movies == IF exclude_rated THEN Rated(user_idx) ELSE {}
    IN IF boost_factor.raised THEN Raise
       ELSE Return(TopN(Ranked(Candidates(Boosted(base, boost_factor.value),
                                          user_movies)),
                        n_recommendations))

\* one call of recommend
Recommend(user_idx, n_recommendations, exclude_rated, use_feast, net) ==
    LET error == InputError(user_idx, n_recommendations)
        fetches == error = "none" /\ use_feast /\ FEAST_ENABLED
        got == IF fetches THEN GetFeastFeatures(online, redis_up, user_idx, net)
               ELSE NotFetched
        result == IF error # "none" THEN Raise
                  ELSE Recommendations(scores, got.features, user_idx,
                                       n_recommendations, exclude_rated)
    IN /\ got.counted => feast_unavailable < MaxUnavailable
       /\ feast_unavailable' = feast_unavailable + (IF got.counted THEN 1 ELSE 0)
       /\ rec' = [user_idx |-> user_idx, n_recommendations |-> n_recommendations,
                  exclude_rated |-> exclude_rated, use_feast |-> use_feast,
                  fetched |-> fetches, scored |-> error = "none",
                  error |-> IF error # "none" THEN error
                            ELSE IF result.raised THEN "prediction_error"
                            ELSE "none",
                  raised |-> result.raised,
                  recommendations |-> IF result.raised THEN <<>> ELSE result.value,
                  feast_features |-> got.features]
       /\ UNCHANGED <<scores, pending, reply, storeVars, accVars, consumerVars, batchVars, jobVars>>

(***************************************************************************)
(* get_feast_features step by step: the GET is sent, then the Feast        *)
(* service answers or the timeout of requests.get expires.  `waited` is    *)
(* the time the call has been in flight, in seconds.                       *)
(***************************************************************************)
\* timeout=1: requests raises Timeout once nothing arrived for that long
NeverExpired(waited) == FALSE
Expired(waited) == waited >= TIMEOUT

GatewayReply(user_idx, net, got) ==
    [op |-> "gateway", id |-> user_idx, net |-> net,
     status |-> got.status, features |-> got.features]

\* line 54: the request leaves
GatewayCall(user_idx) ==
    /\ pending = EmptyDict
    /\ feast_unavailable < MaxUnavailable
    /\ pending' = [user_idx |-> user_idx, waited |-> 0]
    /\ UNCHANGED <<scores, rec, reply, storeVars, gatewayVars, accVars,
                   consumerVars, batchVars, jobVars>>

\* a second passes without an answer
Tick ==
    /\ pending # EmptyDict
    /\ ~Expired(pending.waited)
    /\ pending' = [pending EXCEPT !.waited = @ + 1]
    /\ UNCHANGED <<scores, rec, reply, storeVars, gatewayVars, accVars,
                   consumerVars, batchVars, jobVars>>

\* lines 59-64: the answer of the Feast service arrives in time
FeastAnswers ==
    /\ pending # EmptyDict
    /\ ~Expired(pending.waited)
    /\ LET got == GetFeastFeatures(online, redis_up, pending.user_idx, "reply") IN
       reply' = GatewayReply(pending.user_idx, "reply", got)
    /\ pending' = EmptyDict
    /\ UNCHANGED <<scores, rec, storeVars, gatewayVars, accVars, consumerVars, batchVars, jobVars>>

\* lines 66-69: the timeout expires, requests gives the connection up and
\* raises, and the call is counted
GatewayTimeout ==
    /\ pending # EmptyDict
    /\ Expired(pending.waited)
    /\ LET got == GetFeastFeatures(online, redis_up, pending.user_idx, "timeout") IN
       /\ reply' = GatewayReply(pending.user_idx, "timeout", got)
       /\ feast_unavailable' = feast_unavailable + (IF got.counted THEN 1 ELSE 0)
    /\ pending' = EmptyDict
    /\ UNCHANGED <<scores, rec, storeVars, accVars, consumerVars, batchVars, jobVars>>

(***************************************************************************)
(* POST /feast/materialize step by step.  The handler is an `async def`    *)
(* that never awaits, so it holds the event loop of the one uvicorn        *)
(* process from its first line to its return; inside, store.materialize    *)
(* writes one feature view after the other, and the online store may fail  *)
(* between two of them.                                                    *)
(***************************************************************************)
\* the administrators who call /feast/materialize
Admins == {1, 2}

Malformed == [malformed |-> TRUE]

\* datetime.fromisoformat(d) if d else None
FromIsoformat(d) == IF d = Malformed THEN Raise ELSE Return(d)

\* MaterializeRequest bodies: everything left out, the user view asked for
\* alone, an end date, a start date that is no date or lies after the end
MaterializeRequests ==
    [feature_views : {Null, Some({"user_batch_features"})},
     start_date : {Null}, end_date : {Null, Some(0)}]
    \cup [feature_views : {Null}, start_date : {Malformed, Some(1)},
          end_date : {Some(0)}]

\* a handler of the service is between its first line and its return
NoHandlerRunning == FALSE
HandlerRunning == \E a \in Admins : job[a].kind = "run"

\* how the previous call of the administrator with the same body ended
Previous(a, request) ==
    IF job[a].kind = "resp" /\ job[a].request = request
    THEN (IF job[a].status = 200 THEN "success"
          ELSE IF job[a].written > 0 THEN "partial" ELSE "failure")
    ELSE "none"

MaterializeResponse(j, status, written) ==
    [kind |-> "resp", request |-> j.request, previous |-> j.previous,
     status |-> status, written |-> written]

\* an administrator sends the request
PostMaterialize(a, request) ==
    /\ job[a].kind \in {"idle", "resp"}
    /\ job' = [job EXCEPT ![a] = [kind |-> "req", request |-> request,
                                  previous |-> Previous(a, request)]]
    /\ UNCHANGED <<now, storeVars, gatewayVars, reply, accVars, consumerVars, batchVars,
                   servingVars>>

\* lines 96-103 down to the range check of store.materialize
StartMaterialize(a) ==
    /\ job[a].kind = "req"
    /\ ~HandlerRunning
    /\ LET start_date == FromIsoformat(job[a].request.start_date)
           end_date == FromIsoformat(job[a].request.end_date)
           end == EndDate(end_date.value, now)
           start == StartDate(start_date.value, end)
       IN job' = [job EXCEPT ![a] =
                    IF start_date.raised \/ end_date.raised
                    THEN MaterializeResponse(job[a], 500, 0)
                    ELSE IF start > end
                    THEN MaterializeResponse(job[a], 500, 0)
                    ELSE [kind |-> "run", request |-> job[a].request,
                          previous |-> job[a].previous,
                          start |-> start, end |-> end, todo |-> BatchViews]]
    /\ UNCHANGED <<now, storeVars, gatewayVars, reply, accVars, consumerVars, batchVars,
                   servingVars>>

\* store.materialize writes the next view, or raises when the online store
\* does not answer (lines 111-112 then answer 500)
WriteView(a) ==
    /\ job[a].kind = "run"
    /\ job[a].todo # <<>>
    /\ IF redis_up
       THEN /\ online' = StoreMaterialize(online, {Head(job[a].todo)},
                                          job[a].start, job[a].end)
            /\ job' = [job EXCEPT ![a].todo = Tail(@)]
       ELSE /\ job' = [job EXCEPT ![a] =
                         MaterializeResponse(job[a], 500,
                                             Len(BatchViews) - Len(job[a].todo))]
            /\ UNCHANGED online
    /\ UNCHANGED <<now, redis_up, gatewayVars, reply, accVars, consumerVars, batchVars,
                   servingVars>>

\* lines 105-109: "success": True
FinishMaterialize(a) ==
    /\ job[a].kind = "run"
    /\ job[a].todo = <<>>
    /\ job' = [job EXCEPT ![a] = MaterializeResponse(job[a], 200, Len(BatchViews))]
    /\ UNCHANGED <<now, storeVars, gatewayVars, reply, accVars, consumerVars, batchVars,
                   servingVars>>

\* a day passes
TimePasses ==
    /\ now < MaxNow
    /\ now' = now + 1
    /\ UNCHANGED <<job, storeVars, gatewayVars, reply, accVars, consumerVars, batchVars,
                   servingVars>>

(***************************************************************************)
(* services/feature_engineering: FeatureEngineer.compute_batch_features.   *)
(* Ratings are whole stars, means and scores are floats.  The standard     *)
(* deviation is kept as the fraction under its root.                       *)
(* movie_popularity_score (log1p), the one-hot genre columns and           *)
(* user_days_active are left out.                                          *)
(***************************************************************************)
\* the users and ratings of the ratings file, the genres of movies_clean.csv:
\* a genres text is kept as the sequence of its pipe-separated names; movie 3
\* has no text and movie 4 no row
BatchUsers == {0, 1}
BatchMovies == {0, 1, 2, 3, 4}
Ratings == {4, 5}
NaN == [nan |-> TRUE]
Text(names) == [names |-> names]
NoGenresListed == Text(<<"(no genres listed)">>)
movies_df ==
    << [movie_idx |-> 0, genres |-> Text(<<"Action", "Drama">>)],
       [movie_idx |-> 1, genres |-> Text(<<"Comedy">>)],
       [movie_idx |-> 2, genres |-> NoGenresListed],
       [movie_idx |-> 3, genres |-> NaN] >>

\* row['genres'].split('|')
Split(genres) == genres.names

\* the keys of a groupby, ascending
RECURSIVE Sorted(_)
Sorted(S) ==
    IF S = {} THEN <<>>
    ELSE LET least == CHOOSE x \in S : \A y \in S : x <= y
         IN <<least>> \o Sorted(S \ {least})

\* groupby(key): the keys in ascending order, each with its rows in file order
GroupBy(df, key) ==
    LET keys == Sorted({df[i][key] : i \in DOMAIN df})
    IN [k \in DOMAIN keys |->
           [key |-> keys[k],
            rows |-> SelectSeq(df, LAMBDA row : row[key] = keys[k])]]

RECURSIVE SumOf(_, _)
SumOf(rows, column) ==
    IF rows = <<>> THEN 0
    ELSE Head(rows)[column] + SumOf(Tail(rows), column)

RECURSIVE SumOfSquares(_, _)
SumOfSquares(rows, column) ==
    IF rows = <<>> THEN 0
    ELSE Head(rows)[column] * Head(rows)[column] + SumOfSquares(Tail(rows), column)

\* the aggregations 'mean', 'std', 'count', 'min', 'max' of a group
MeanOfFirst(rows, column) == FromInt(Head(rows)[column])
Mean(rows, column) == Div(FromInt(SumOf(rows, column)), FromInt(Len(rows)))

\* the sample standard deviation (ddof = 1): NaN for a single row
Std(rows, column) ==
    LET n == Len(rows)
        s == SumOf(rows, column)
    IN IF n < 2 THEN NaN
       ELSE IF n * SumOfSquares(rows, column) = s * s
       THEN [sqrt_num |-> 0, sqrt_den |-> 1]
       ELSE [sqrt_num |-> n * SumOfSquares(rows, column) - s * s,
             sqrt_den |-> n * (n - 1)]

MinOf(rows, column) ==
    CHOOSE x \in {rows[i][column] : i \in DOMAIN rows} :
        \A i \in DOMAIN rows : x <= rows[i][column]
MaxOf(rows, column) ==
    CHOOSE x \in {rows[i][column] : i \in DOMAIN rows} :
        \A i \in DOMAIN rows : x >= rows[i][column]

\* series.fillna(0, inplace=True)
FillNaSkipped(value) == value
FillNa(value) == IF value = NaN THEN [sqrt_num |-> 0, sqrt_den |-> 1] ELSE value

\* _compute_user_features
ComputeUserFeatures(ratings) ==
    LET groups == GroupBy(ratings, "user_idx")
    IN [k \in DOMAIN groups |->
          LET rows == groups[k].rows IN
          [user_idx |-> groups[k].key,
           user_avg_rating |-> Mean(rows, "rating"),
           user_rating_std |-> FillNa(Std(rows, "rating")),
           user_rating_count |-> Len(rows),
           user_min_rating |-> MinOf(rows, "rating"),
           user_max_rating |-> MaxOf(rows, "rating"),
           user_first_rating_time |-> MinOf(rows, "timestamp"),
           user_last_rating_time |-> MaxOf(rows, "timestamp"),
           user_rating_range |-> MaxOf(rows, "rating") - MinOf(rows, "rating")]]

\* lines 118-126: (C * m + R * v) / (C + v)
QualityScore(C, m, R, v) == Div(Add(Mul(C, m), Mul(R, v)), Add(C, v))

\* df.merge(movies_df[['movie_idx', 'genres']], on='movie_idx', how=...): a
\* row of df per matching row of movies_df; how='left' keeps a row without
\* a match, its genres NaN
RECURSIVE MergeInner(_, _)
MergeInner(df, right) ==
    IF df = <<>> THEN <<>>
    ELSE LET row == Head(df)
             matches == SelectSeq(right, LAMBDA r : r.movie_idx = row.movie_idx)
         IN [i \in DOMAIN matches |-> [genres |-> matches[i].genres] @@ row]
            \o MergeInner(Tail(df), right)

RECURSIVE Merge(_, _)
Merge(df, right) ==
    IF df = <<>> THEN <<>>
    ELSE LET row == Head(df)
             matches == SelectSeq(right, LAMBDA r : r.movie_idx = row.movie_idx)
         IN (IF matches = <<>> THEN <<[genres |-> NaN] @@ row>>
             ELSE [i \in DOMAIN matches |-> [genres |-> matches[i].genres] @@ row])
            \o Merge(Tail(df), right)

\* _compute_movie_features
ComputeMovieFeatures(ratings, movies) ==
    LET groups == GroupBy(ratings, "movie_idx")
        C == Div(FromInt(Len(ratings)), FromInt(Len(groups)))
        m == Mean(ratings, "rating")
        movie_features ==
            [k \in DOMAIN groups |->
               LET rows == groups[k].rows IN
               [movie_idx |-> groups[k].key,
                movie_avg_rating |-> Mean(rows, "rating"),
                movie_rating_std |-> FillNa(Std(rows, "rating")),
                movie_rating_count |-> Len(rows),
                movie_min_rating |-> MinOf(rows, "rating"),
                movie_max_rating |-> MaxOf(rows, "rating"),
                movie_first_rating_time |-> MinOf(rows, "timestamp"),
                movie_last_rating_time |-> MaxOf(rows, "timestamp"),
                movie_rating_range |-> MaxOf(rows, "rating") - MinOf(rows, "rating"),
                movie_quality_score |->
                    QualityScore(C, m, Mean(rows, "rating"), FromInt(Len(rows)))]]
    IN Merge(movie_features, movies)

\* lines 161-166: the genres one user's rows credit, in the order the loop
\* meets them, each with the rating of its row
RECURSIVE Credits(_)
Credits(group) ==
    IF group = <<>> THEN <<>>
    ELSE LET row == Head(group)
             genres == IF row.genres # NaN /\ row.genres # NoGenresListed
                       THEN Split(row.genres) ELSE <<>>
         IN [i \in DOMAIN genres |-> [genre |-> genres[i], rating |-> row.rating]]
            \o Credits(Tail(group))

\* genre_counts[genre] and genre_ratings[genre]
GenreRatings(credits, genre) == SelectSeq(credits, LAMBDA c : c.genre = genre)
GenreCount(credits, genre) == Len(GenreRatings(credits, genre))

\* max(genre_counts, key=genre_counts.get): the keys of a dict come in the
\* order of their insertion, max returns the first of the largest
TopGenre(credits) ==
    LET first == CHOOSE i \in DOMAIN credits :
                    /\ \A j \in DOMAIN credits :
                          GenreCount(credits, credits[j].genre)
                              <= GenreCount(credits, credits[i].genre)
                    /\ \A j \in 1 .. i - 1 :
                          GenreCount(credits, credits[j].genre)
                              < GenreCount(credits, credits[i].genre)
    IN credits[first].genre

\* _compute_user_movie_features
ComputeUserMovieFeatures(ratings, movies) ==
    LET groups == GroupBy(Merge(ratings, movies), "user_idx")
    IN [k \in DOMAIN groups |->
          LET credits == Credits(groups[k].rows) IN
          IF credits # <<>>
          THEN LET top_genre == TopGenre(credits) IN
               [user_idx |-> groups[k].key,
                user_favorite_genre |-> top_genre,
                user_favorite_genre_count |-> GenreCount(credits, top_genre),
                user_favorite_genre_avg_rating |->
                    Mean(GenreRatings(credits, top_genre), "rating")]
          ELSE [user_idx |-> groups[k].key,
                user_favorite_genre |-> Unknown,
                user_favorite_genre_count |-> 0,
                user_favorite_genre_avg_rating |-> FromInt(0)]]

\* compute_batch_features
ComputeBatchFeatures(ratings, movies) ==
    [user_features |-> ComputeUserFeatures(ratings),
     movie_features |-> ComputeMovieFeatures(ratings, movies),
     user_movie_features |-> ComputeUserMovieFeatures(ratings, movies)]

\* a row [user_idx, movie_idx, rating, timestamp] is written to the ratings
\* file, at most `most` of them; the rows come in time order
RatingRow(user_idx, movie_idx, rating, timestamp) ==
    [user_idx |-> user_idx, movie_idx |-> movie_idx, rating |-> rating,
     timestamp |-> timestamp]

Interaction(row, most) ==
    /\ Len(ratings_df) < most
    /\ ratings_df' = Append(ratings_df, row)
    /\ UNCHANGED <<batch_features, accVars, consumerVars, storeVars, gatewayVars, reply,
                   servingVars, jobVars>>

\* POST /features/batch: the files are read and the features computed
ComputeBatchFeaturesEndpoint ==
    /\ batch_features' = ComputeBatchFeatures(ratings_df, movies_df)
    /\ UNCHANGED <<ratings_df, accVars, consumerVars, storeVars, gatewayVars, reply,
                   servingVars, jobVars>>

InitBatch ==
    /\ ratings_df = <<>>
    /\ batch_features = EmptyDict

InitStore ==
    /\ online = NewOnlineStore
    /\ redis_up = TRUE

InitGateway ==
    /\ feast_unavailable = 0
    /\ reply = EmptyDict

\* the scores of a loaded model: a sample, and any
SampleScores ==
    [movie_idx \in Movies |-> IF movie_idx = 0 THEN FromInt(MaxScore) ELSE FromInt(-1)]
AnyScores == [Movies -> BaseScores]

InitServing ==
    /\ rec = EmptyDict
    /\ pending = EmptyDict

InitJobs ==
    /\ job = [a \in Admins |-> Idle]
    /\ now = 0

InitButModel ==
    /\ InitAccumulator /\ InitConsumer /\ InitStore /\ InitGateway
    /\ InitServing /\ InitJobs /\ InitBatch

Init == InitButModel /\ scores = SampleScores

\* the feature-engineering service and one client
Client == CHOOSE w \in Workers : \A v \in Workers : w <= v

Next ==
    \/ \E body \in StreamEventBodies : PostStreamEvent(Client, body)
    \/ UpdateStreamFeaturesEndpoint(Client)
    \/ \E user_idx \in Ids : GetUserFeaturesEndpoint(Client, user_idx)
    \/ \E movie_idx \in Ids : GetMovieFeaturesEndpoint(Client, movie_idx)
    \/ Receive(Client)

Spec == Init /\ [][Next]_vars

\* the same service asked for its statistics between the events
NextStats ==
    \/ \E body \in StreamEventBodies : PostStreamEvent(Client, body)
    \/ UpdateStreamFeaturesEndpoint(Client)
    \/ GetFeatureStatsEndpoint(Client)
    \/ HealthCheckEndpoint(Client)
    \/ Receive(Client)

SpecStats == Init /\ [][NextStats]_vars

\* the same service while the workers deliver events concurrently
WorkerEventBodies ==
    {body \in StreamEventBodies :
        /\ body.user_idx >= 0
        /\ body.movie_idx = 0
        /\ body.event_type \in {"view", "rating"}
        /\ "genres" \notin DOMAIN body}

NextWorkers ==
    \/ \E w \in Workers, body \in WorkerEventBodies : PostStreamEvent(w, body)
    \/ \E w \in Workers : UpdateStreamFeaturesEndpoint(w)
    \/ \E w \in Workers, user_idx \in ValidIds : GetUserFeaturesEndpoint(w, user_idx)
    \/ \E w \in Workers, movie_idx \in ValidIds : GetMovieFeaturesEndpoint(w, movie_idx)
    \/ \E w \in Workers : Receive(w)

SpecWorkers == Init /\ [][NextWorkers]_vars

NextConsumer == \E event \in KafkaEvents : Consume(event)

SpecConsumer == Init /\ [][NextConsumer]_vars

\* the Feast service with its clients, and the gateway of the serving service
\* the updates the clients of the Feast service send: entity 1 is never
\* written, one event type of each branch of line 231
StoreEvents ==
    { event \in StreamUpdateEvents :
        /\ event.user_idx # 1
        /\ event.movie_idx # 1
        /\ event.event_type \in {"view", "rating"} }

\* the serving service over the store: one pushed counter at most
ServingEvents ==
    { event \in StoreEvents :
        /\ event.user_idx = 0 /\ event.movie_idx = 0
        /\ event.event_type = "rating" /\ event.timestamp = "float"
        /\ "genres" \notin DOMAIN event }

RecUsers == -1 .. n_users
RecSizes == {0, 1, n_movies, MaxRecommendations + 1}

NextServing ==
    \/ \E user_idx \in RecUsers, n_recommendations \in RecSizes,
          exclude_rated \in BOOLEAN, use_feast \in BOOLEAN, net \in NetOutcomes :
          Recommend(user_idx, n_recommendations, exclude_rated, use_feast, net)
    \/ \E event \in ServingEvents : FeastUpdateStreamFeature(event)
    \/ FeastMaterialize
    \/ RedisFails
    \/ RedisRecovers

SpecServing == Init /\ [][NextServing]_vars

\* every request to recommend, over a store that holds no rows and fails
\* and recovers
NextValidation ==
    \/ \E user_idx \in RecUsers, n_recommendations \in RecSizes,
          exclude_rated \in BOOLEAN, use_feast \in BOOLEAN, net \in NetOutcomes :
          Recommend(user_idx, n_recommendations, exclude_rated, use_feast, net)
    \/ RedisFails
    \/ RedisRecovers

SpecValidation == Init /\ [][NextValidation]_vars

\* the boost over every counter up to MaxActivity and every model
BoostEvents ==
    [user_idx : {0}, movie_idx : {0}, event_type : {"rating"},
     timestamp : {"float"}, user_recent_activity : 0 .. MaxActivity]

NextBoost ==
    \/ \E use_feast \in BOOLEAN : Recommend(0, n_movies, FALSE, use_feast, "reply")
    \/ \E event \in BoostEvents : FeastUpdateStreamFeature(event)

InitBoost ==
    /\ InitButModel
    /\ scores \in AnyScores

SpecBoost == InitBoost /\ [][NextBoost]_vars

\* the boost over models whose scores are neighbouring floats: the floats
\* just below 1 and just above -1
CloseScores ==
    {[m |-> sign * (Pow2(MantissaBits) - k), e |-> -MantissaBits] :
        sign \in {-1, 1}, k \in 1 .. CloseSteps}

NextRanking ==
    \/ \E use_feast \in BOOLEAN : Recommend(0, n_movies, FALSE, use_feast, "reply")
    \/ \E event \in BoostEvents : FeastUpdateStreamFeature(event)

InitRanking ==
    /\ InitButModel
    /\ scores \in [Movies -> CloseScores]

SpecRanking == InitRanking /\ [][NextRanking]_vars

\* the gateway waiting for a Feast service that may never answer
NextTimeout ==
    \/ \E user_idx \in Ids : GatewayCall(user_idx)
    \/ Tick
    \/ FeastAnswers
    \/ GatewayTimeout
    \/ \E event \in ServingEvents : FeastUpdateStreamFeature(event)
    \/ RedisFails
    \/ RedisRecovers

\* time passes and the timer of requests fires; nothing makes the Feast
\* service answer
SpecTimeout ==
    Init /\ [][NextTimeout]_vars /\ WF_vars(Tick) /\ WF_vars(GatewayTimeout)

\* the administrators of the Feast service, the clock and the online store
NextMaterialize ==
    \/ \E a \in Admins, request \in MaterializeRequests : PostMaterialize(a, request)
    \/ \E a \in Admins : StartMaterialize(a)
    \/ \E a \in Admins : WriteView(a)
    \/ \E a \in Admins : FinishMaterialize(a)
    \/ TimePasses
    \/ RedisFails
    \/ RedisRecovers

SpecMaterialize == Init /\ [][NextMaterialize]_vars

NextStore ==
    \/ \E user_id \in Ids : FeastGetUserFeatures(user_id)
    \/ \E movie_id \in Ids : FeastGetMovieFeatures(movie_id)
    \/ \E event \in StoreEvents : FeastUpdateStreamFeature(event)
    \/ FeastMaterialize
    \/ RedisFails
    \/ RedisRecovers
    \/ \E user_idx \in Ids, net \in NetOutcomes : GatewayFetch(user_idx, net)

SpecStore == Init /\ [][NextStore]_vars

\* the two scripts, run one after the other in any order
NextPipeline ==
    \/ \E event \in ScriptEvents : SimulateStreamEvent(event)
    \/ \E event \in ScriptEvents : TestStep6Streaming(event)

SpecPipeline == Init /\ [][NextPipeline]_vars

\* the batch compiler over every ratings file of MaxRatings rows, written
\* in time order
NextBatch ==
    \/ \E user_idx \in BatchUsers, movie_idx \in BatchMovies, rating \in Ratings :
          Interaction(RatingRow(user_idx, movie_idx, rating,
                                100 * (Len(ratings_df) + 1)), MaxRatings)
    \/ ComputeBatchFeaturesEndpoint

SpecBatch == Init /\ [][NextBatch]_vars

\* the quality score over the ratings one user gives to three movies
QualityMovies == {0, 1, 2}
QualityRatings == {3, 4}

NextQuality ==
    \/ \E movie_idx \in QualityMovies, rating \in QualityRatings :
          Interaction(RatingRow(0, movie_idx, rating,
                                100 * (Len(ratings_df) + 1)), MaxQualityRatings)
    \/ ComputeBatchFeaturesEndpoint

SpecQuality == Init /\ [][NextQuality]_vars

(***************************************************************************)
(* Properties of the streaming feature accumulator                         *)
(***************************************************************************)
\* snapshot(kind, id) as the service's read endpoints compute it
UserSnapshot(user_idx) == GetUserStreamFeatures(stream_features, user_idx)
MovieSnapshot(movie_idx) == GetMovieStreamFeatures(stream_features, movie_idx)

\* in this step the endpoint accepted the event in the body of w's request
Accepted(w) ==
    /\ conn[w].kind = "req"
    /\ conn'[w].kind = "resp"
    /\ conn'[w].status = 200

\* in this step the service answered a read of kind op for client w
Answered(w, op) ==
    /\ conn[w] = Idle
    /\ conn'[w].kind = "resp"
    /\ conn'[w].op = op

\* C1: every accepted apply adds exactly 1 to the activity counter of its user,
\* whatever the event type: after n accepted applies for user u (re-deliveries
\* included) the snapshot of u shows activity n.
C1_ActivityCountsEveryApply ==
    \A u \in ValidIds : UserSnapshot(u).user_recent_activity = n_applied[u]

\* three applies for user 1 have been accepted and its snapshot shows 3
C1_ThreeApplies ==
    /\ n_applied[1] = 3
    /\ UserSnapshot(1).user_recent_activity = 3
    /\ conn[Client].kind = "resp"
    /\ conn[Client].op = "stream"
    /\ conn[Client].status = 200

\* C2: an accepted apply adds exactly 1 to the attention counters of its item
\* iff its type is view or click; every other attention counter, and every one
\* on any other event type, keeps its value.
C2_AttentionOnlyOnViewOrClick ==
    [][\A w \in Workers : Accepted(w) =>
          LET event == conn[w].body IN
          \A m \in Ids :
             LET gain == IF /\ m = event.movie_idx
                            /\ event.event_type \in {"view", "click"}
                         THEN 1 ELSE 0
                 before == MovieSnapshot(m)
                 after == GetMovieStreamFeatures(stream_features', m)
             IN /\ after.movie_popularity = before.movie_popularity + gain
                /\ after.movie_recent_views = before.movie_recent_views + gain
      ]_vars

\* three view or click events for item 1 were accepted, and a rating as well
C2_ThreeViews ==
    /\ n_attention[1] = 3
    /\ MovieSnapshot(1).movie_popularity = 3
    /\ MovieSnapshot(1).movie_recent_views = 3

C2_RatingLeavesAttention ==
    /\ n_attention[0] = 0
    /\ 0 \in DOMAIN stream_features.movie_popularity
    /\ MovieSnapshot(0).movie_popularity = 0

\* C3: an accepted apply sets the last-seen tag of its user to the event's
\* category tag when the request carries one, leaves that tag as it was when
\* the request carries none, and never changes the tag of another user.
C3_TagOverwrittenOnlyWhenCarried ==
    [][\A w \in Workers : Accepted(w) =>
          LET body == conn[w].body IN
          \A u \in Ids :
             LET before == UserSnapshot(u).user_last_genre
                 after == GetUserStreamFeatures(stream_features', u).user_last_genre
             IN IF u = body.user_idx /\ "genres" \in DOMAIN body
                THEN after = body.genres
                ELSE after = before
      ]_vars

\* C5: a snapshot of an id that never received an event is the default state
\* (counters 0, tag 'Unknown'), and no snapshot changes the accumulator: not a
\* counter, not a tag, not the key set of a map.
C5_SnapshotDefaultAndReadOnly ==
    [][\A w \in Workers :
          /\ Answered(w, "user") =>
               /\ stream_features' = stream_features
               /\ LET got == conn'[w].content IN
                  (got.user_idx \notin ValidIds \/ n_applied[got.user_idx] = 0)
                     => /\ got.user_recent_activity = 0
                        /\ got.user_last_genre = Unknown
          /\ Answered(w, "movie") =>
               /\ stream_features' = stream_features
               /\ LET got == conn'[w].content IN
                  (got.movie_idx \notin ValidIds \/ n_attention[got.movie_idx] = 0)
                     => /\ got.movie_popularity = 0
                        /\ got.movie_recent_views = 0
      ]_vars

\* user 1 has events, and the client holds the default snapshot of unseen user 0
C5_UnseenUserRead ==
    /\ n_applied[1] > 0
    /\ n_applied[0] = 0
    /\ conn[Client].kind = "resp"
    /\ conn[Client].op = "user"
    /\ conn[Client].content =
          [user_idx |-> 0, user_recent_activity |-> 0, user_last_genre |-> Unknown]
    /\ 0 \notin DOMAIN stream_features.user_recent_activity

\* a counter map never loses a key or lowers a value, unless it is emptied
GrowsOrCleared(before, after) ==
    \/ after = EmptyDict
    \/ \A k \in DOMAIN before : k \in DOMAIN after /\ after[k] >= before[k]

\* C4: no activity or attention counter ever decreases, for any kind and id,
\* except in a step that resets the whole map of its kind.
C4_CountersNeverDecreaseButByReset ==
    [][/\ GrowsOrCleared(user_activity, user_activity')
       /\ GrowsOrCleared(movie_popularity, movie_popularity')
       /\ GrowsOrCleared(stream_features.user_recent_activity,
                         stream_features'.user_recent_activity)
       /\ GrowsOrCleared(stream_features.movie_popularity,
                         stream_features'.movie_popularity)
       /\ GrowsOrCleared(stream_features.movie_recent_views,
                         stream_features'.movie_recent_views)
      ]_vars

\* the second window of the consumer holds a counter of 2 for user 0 and for
\* movie 0: they were reset once and grew again
C4_GrownAfterReset ==
    /\ event_count > WindowEvents
    /\ Get(user_activity, 0, 0) = 2
    /\ Get(movie_popularity, 0, 0) = 2

\* the consumer has just reset its window: no event was applied since
JustReset == event_count > 0 /\ event_count % WindowEvents = 0

\* C6: after a reset and before any further apply, the snapshot of every id is
\* the default state: every counter of the kind reads 0 (the consumer, the one
\* holder of a reset, keeps no tag).
C6_DefaultAfterReset ==
    JustReset =>
       /\ \A id \in Ids : Get(user_activity, id, 0) = 0
       /\ \A id \in Ids : Get(movie_popularity, id, 0) = 0
       /\ user_activity = EmptyDict
       /\ movie_popularity = EmptyDict

\* a window of view events only has been consumed and reset
C6_ResetAfterViews ==
    /\ JustReset
    /\ Get(event_types_count, "view", 0) = WindowEvents
    /\ user_activity = EmptyDict

\* w holds the acknowledgement of an accepted event of user u
Acked(w, u) ==
    /\ conn[w].kind = "resp"
    /\ conn[w].op = "stream"
    /\ conn[w].status = 200
    /\ conn[w].content.user_idx = u

\* C7: handlers of concurrent applies are atomic per id. No update is lost:
\* each counter equals the number of handled applies, so it is the initial
\* value plus k once k interleaved applies are through; two acknowledgements
\* of the same user never carry the same counter value; and every value a
\* worker was given, by an acknowledgement or a snapshot, lies between the
\* initial 0 and the current counter.
C7_AtomicPerIdUpdates ==
    /\ \A u \in ValidIds :
          /\ UserSnapshot(u).user_recent_activity = n_applied[u]
          /\ MovieSnapshot(u).movie_popularity = n_attention[u]
    /\ \A w1, w2 \in Workers, u \in ValidIds :
          (w1 # w2 /\ Acked(w1, u) /\ Acked(w2, u))
             => conn[w1].content.user_recent_activity
                   # conn[w2].content.user_recent_activity
    /\ \A w \in Workers, u \in ValidIds :
          Acked(w, u) =>
             /\ conn[w].content.user_recent_activity >= 1
             /\ conn[w].content.user_recent_activity
                   <= UserSnapshot(u).user_recent_activity
    /\ \A w \in Workers :
          (conn[w].kind = "resp" /\ conn[w].op = "user") =>
             /\ conn[w].content.user_recent_activity >= 0
             /\ conn[w].content.user_recent_activity
                   <= UserSnapshot(conn[w].content.user_idx).user_recent_activity

\* both workers hold an acknowledgement for user 0, worker 2 served first
C7_InterleavedAcks ==
    /\ Acked(1, 0) /\ conn[1].content.user_recent_activity = 2
    /\ Acked(2, 0) /\ conn[2].content.user_recent_activity = 1
    /\ n_applied[0] = 2

\* C8: an event with a negative user or item id is rejected at every ingest
\* boundary, so no negative id is ever a key of the accumulator state (of the
\* service or of the consumer) or of the online store.
C8_NegativeIdsNeverEnterState ==
    /\ \A k \in DOMAIN user_activity : k >= 0
    /\ \A k \in DOMAIN movie_popularity : k >= 0
    /\ \A k \in DOMAIN stream_features.user_recent_activity : k >= 0
    /\ \A k \in DOMAIN stream_features.movie_popularity : k >= 0
    /\ \A view \in DOMAIN online : \A k \in DOMAIN online[view] : k >= 0

\* the record of an entity the online store holds no row of: its key, and
\* None for every feature asked for
DefaultRecord(key, id, feature_refs) ==
    [c \in {key} \cup {ref[2] : ref \in feature_refs} |->
        IF c = key THEN Some(id) ELSE Null]

NotInStore(views, id) == \A view \in views : id \notin DOMAIN online[view]

UserViews == {"user_batch_features", "user_stream_features"}
MovieViews == {"movie_batch_features", "movie_stream_features"}

\* C9: a fetch for an entity the store holds nothing of, of either kind and
\* through the Feast service or the gateway, raises nothing and reports no
\* error while the store answers: it is answered 200 with the default
\* record; and the gateway returns a record whatever happened.
C9_FetchOfMissingEntityIsDefault ==
    [][reply' # reply =>
        /\ (redis_up /\ reply'.op = "user" /\ NotInStore(UserViews, reply'.id))
              => /\ reply'.status = 200
                 /\ reply'.features
                       = DefaultRecord("user_idx", reply'.id, UserServingRefs)
        /\ (redis_up /\ reply'.op = "movie" /\ NotInStore(MovieViews, reply'.id))
              => /\ reply'.status = 200
                 /\ reply'.features
                       = DefaultRecord("movie_idx", reply'.id, MovieServingRefs)
        /\ (reply'.op = "gateway")
              => IF /\ redis_up /\ reply'.net = "reply"
                    /\ NotInStore(UserViews, reply'.id)
                 THEN reply'.features
                        = DefaultRecord("user_idx", reply'.id, UserServingRefs)
                 ELSE reply'.status # 200 => reply'.features = EmptyDict]_vars

\* the gateway fetched user 1, whom nothing was written of, from a store that
\* answers and holds rows of user 0 in both views
C9_MissingUserFetched ==
    /\ reply # EmptyDict /\ reply.op = "gateway" /\ reply.id = 1
    /\ reply.net = "reply" /\ reply.status = 200
    /\ reply.features = DefaultRecord("user_idx", 1, UserServingRefs)
    /\ redis_up
    /\ \A view \in UserViews : 0 \in DOMAIN online[view]

\* the Feast service answered for movie -1, which nothing was written of
C9_MissingMovieFetched ==
    /\ reply # EmptyDict /\ reply.op = "movie" /\ reply.id = -1
    /\ reply.status = 200
    /\ reply.features = DefaultRecord("movie_idx", -1, MovieServingRefs)
    /\ \A view \in MovieViews : 0 \in DOMAIN online[view]

\* C10: every gateway fetch that fails because the store is unavailable (a
\* timeout, a connection error, or an error answer of the Feast service)
\* returns the empty record and increments feast_unavailable by exactly 1;
\* a fetch that succeeds leaves the counter alone.
C10_EveryFailedFetchIsCounted ==
    [][((reply' # reply \/ feast_unavailable' # feast_unavailable)
            /\ reply'.op = "gateway") =>
        IF reply'.net # "reply" \/ reply'.status # 200
        THEN /\ reply'.features = EmptyDict
             /\ feast_unavailable' = feast_unavailable + 1
        ELSE feast_unavailable' = feast_unavailable]_vars

\* C11: a recommendation request with valid arguments always completes with
\* a recommendation result, whatever the gateway yielded for the user: a
\* failure, an empty record, or a record whose activity field is None.
C11_ValidRequestAlwaysServed ==
    (rec # EmptyDict /\ InputError(rec.user_idx, rec.n_recommendations) = "none")
        => ~rec.raised

\* C12: a gateway fetch always terminates, even when the store never
\* answers: the call is in flight for TIMEOUT at most, when that expires it
\* is given up and the empty record is returned.
C12_FetchEndsAtTimeout ==
    /\ [](pending # EmptyDict => pending.waited <= TIMEOUT)
    /\ [][(pending # EmptyDict /\ pending' = EmptyDict /\ Expired(pending.waited))
            => /\ reply'.op = "gateway" /\ reply'.id = pending.user_idx
               /\ reply'.features = EmptyDict]_vars
    /\ \A user_idx \in Ids :
          (pending # EmptyDict /\ pending.user_idx = user_idx)
             ~> (pending = EmptyDict)

\* a fetch for user 0 ended by the timeout and nothing is in flight
C12_TimedOutFetch ==
    /\ pending = EmptyDict
    /\ reply # EmptyDict /\ reply.op = "gateway" /\ reply.id = 0
    /\ reply.net = "timeout" /\ reply.features = EmptyDict
    /\ feast_unavailable = 1

\* the views of a run all written, each row of its range as compiled
RangeWritten(store, start, end) ==
    \A i \in DOMAIN BatchViews :
        \A id \in InRange(BatchViews[i], start, end) :
            /\ id \in DOMAIN store[BatchViews[i]]
            /\ store[BatchViews[i]][id] = OfflineStore[BatchViews[i]][id]

\* C13: materialize is idempotent: the run of a request whose previous run
\* with the same body (dates left out included) succeeded writes nothing
\* new, it leaves the online store exactly as that run left it.
C13_MaterializeIdempotent ==
    [][\A a \in Admins :
          (job[a].kind = "run" /\ job[a].previous = "success" /\ job'[a] # job[a])
             => online' = online]_vars

\* a second run with dates left out has ended, a day after the first
C13_SecondRunDone ==
    \E a \in Admins :
        /\ job[a].kind = "resp" /\ job[a].status = 200
        /\ job[a].previous = "success"
        /\ job[a].request.start_date = Null /\ job[a].request.end_date = Null
        /\ now = MaxNow
        /\ RangeWritten(online, 0, 0)

\* C14: a run reports success only when every row of its range is written in
\* every view; a run that fails after writing some view reports failure;
\* and a run that succeeds, a retry after such a failure included, leaves in
\* the batch views the compiled rows and nothing else.
C14_SuccessMeansAllWritten ==
    [][\A a \in Admins :
          (job[a].kind = "run" /\ job'[a].kind = "resp") =>
             /\ job'[a].status = 200 =>
                   /\ RangeWritten(online', job[a].start, job[a].end)
                   /\ \A i \in DOMAIN BatchViews :
                         \A id \in DOMAIN online'[BatchViews[i]] :
                            online'[BatchViews[i]][id] = OfflineStore[BatchViews[i]][id]
             /\ job[a].todo # <<>> => job'[a].status = 500]_vars

\* the retry of a run that failed after the user view has succeeded
C14_RetryAfterPartialFailure ==
    \E a \in Admins :
        /\ job[a].kind = "resp" /\ job[a].status = 200
        /\ job[a].previous = "partial"
        /\ RangeWritten(online, 0, 0)

\* C15: two materialization runs are never in flight at the same time: a
\* request that arrives while a run is writing starts after that run ended.
C15_OneRunAtATime ==
    Cardinality({a \in Admins : job[a].kind = "run"}) <= 1

\* a run has written the user view while the request of the other
\* administrator waits
C15_RequestWaitsForRun ==
    \E a, b \in Admins :
        /\ job[a].kind = "run" /\ Len(job[a].todo) = 1
        /\ job[b].kind = "req"

\* C16: a run writes the batch rows of the kinds named in the request only:
\* the rows of a kind that was not asked for stay as they were.
C16_OnlyRequestedKindsWritten ==
    [][\A a \in Admins :
          (job[a].kind = "run" /\ job[a].request.feature_views # Null) =>
             \A view \in FeatureViews \ job[a].request.feature_views.v :
                online'[view] = online[view]]_vars

\* the value a fetched record must hold for a feature of a view: the value
\* of the entity's row of that view, None without a row
Merged(store, ref, id) ==
    IF id \in DOMAIN store[ref[1]] THEN Some(store[ref[1]][id][ref[2]]) ELSE Null

Counted(r) ==
    /\ r # EmptyDict /\ ~r.raised /\ r.fetched
    /\ r.feast_features # EmptyDict
    /\ r.feast_features.user_recent_activity # Null

Activity(r) == r.feast_features.user_recent_activity.v

\* the score recommend reported for a movie
ScoreOf(r, movie_idx) ==
    LET i == CHOOSE i \in DOMAIN r.recommendations :
                 r.recommendations[i].movie_idx = movie_idx
    IN r.recommendations[i].score

\* the float 1.20
OneAndFifth == Round(120, 100, 0)

\* C18: with an activity counter a >= 0 every candidate's base score is
\* multiplied by the same factor 1 + min(a, 20) * 0.01, which lies between
\* 1.00 and 1.20.
C18_BoostFactorUniformAndCapped ==
    Counted(rec) =>
        LET a == Activity(rec)
            factor == Add(One, Mul(FromInt(IF a < 20 THEN a ELSE 20), Hundredth))
        IN /\ LessEq(One, factor) /\ LessEq(factor, OneAndFifth)
           /\ \A i \in DOMAIN rec.recommendations :
                 rec.recommendations[i].score
                    = Mul(scores[rec.recommendations[i].movie_idx], factor)

\* a request served with a counter below the cap and scores of both signs
C18_BoostedBelowCap ==
    /\ Counted(rec) /\ Activity(rec) = CAP - 1
    /\ Len(rec.recommendations) = n_movies
    /\ \E m \in Movies : scores[m].m > 0
    /\ \E m \in Movies : scores[m].m < 0

\* C19: for a fixed base score of either sign the boosted score never
\* decreases when the activity counter grows.
C19_BoostMonotoneInActivity ==
    [][(Counted(rec) /\ Counted(rec') /\ Activity(rec) <= Activity(rec'))
          => \A m \in Movies : LessEq(ScoreOf(rec, m), ScoreOf(rec', m))]_vars

\* C20: once the activity counter has reached the cap of 20 the boosted
\* scores no longer change: two counters >= 20 give the same scores.
C20_BoostSaturatesAtCap ==
    [][(Counted(rec) /\ Counted(rec') /\ Activity(rec) >= 20 /\ Activity(rec') >= 20)
          => rec'.recommendations = rec.recommendations]_vars

\* a request served with the largest counter, above the cap
C20_BoostedAboveCap ==
    /\ Counted(rec) /\ Activity(rec) = MaxActivity /\ MaxActivity > CAP
    /\ \E i \in DOMAIN rec.recommendations :
          /\ rec.recommendations[i].score.m # 0
          /\ rec.recommendations[i].score
                = Mul(scores[rec.recommendations[i].movie_idx], OneAndFifth)

\* the movie ids of a ranked list, in its order
MovieIds(recommendations) ==
    [i \in DOMAIN recommendations |-> recommendations[i].movie_idx]

\* the list recommend produces from the unboosted scores
RankedWithoutBoost(r) ==
    TopN(Ranked(Candidates(scores, IF r.exclude_rated THEN Rated(r.user_idx) ELSE {})),
         r.n_recommendations)

\* C29: for any activity counter >= 0 and any base scores, positive or
\* negative, the ranked list of movie ids produced with the boost is the
\* list produced without it.
C29_BoostKeepsRanking ==
    Counted(rec) =>
        MovieIds(rec.recommendations) = MovieIds(RankedWithoutBoost(rec))

\* a call of recommend with valid arguments that had no feature record of
\* the user: nothing fetched (use switched off), the fetch failed or came
\* back empty, or the store holds no activity row of the user
NoRecord(r) ==
    /\ r # EmptyDict
    /\ InputError(r.user_idx, r.n_recommendations) = "none"
    /\ \/ ~r.fetched
       \/ r.feast_features = EmptyDict
       \/ r.feast_features.user_recent_activity = Null

\* the ranking recommend produces without feature lookup
Unboosted(r) ==
    Recommendations(scores, EmptyDict, r.user_idx, r.n_recommendations,
                    r.exclude_rated).value

\* C21: when no feature record is available for the requesting user (the
\* fetch failed, the record is absent or empty, or feature use is switched
\* off) the boost factor is 1: the request is served, every score is the
\* base score and the ranking is the one produced without feature lookup.
C21_NoRecordMeansNoBoost ==
    NoRecord(rec) => (~rec.raised /\ rec.recommendations = Unboosted(rec))

\* the float 0 that fillna(0) writes
Zero == [sqrt_num |-> 0, sqrt_den |-> 1]

\* C22: in the compiled batch features every user and every movie with one
\* rating has the standard deviation exactly 0, and no record carries an
\* undefined (NaN) standard deviation.
C22_StdOfSingleRatingIsZero ==
    batch_features # EmptyDict =>
        /\ \A i \in DOMAIN batch_features.user_features :
              LET r == batch_features.user_features[i] IN
              /\ r.user_rating_std # NaN
              /\ r.user_rating_count = 1 => r.user_rating_std = Zero
        /\ \A i \in DOMAIN batch_features.movie_features :
              LET r == batch_features.movie_features[i] IN
              /\ r.movie_rating_std # NaN
              /\ r.movie_rating_count = 1 => r.movie_rating_std = Zero

\* a compiled file where one user and one movie have a single rating and
\* another user has two
C22_SingleRatingsCompiled ==
    /\ batch_features # EmptyDict
    /\ \E i \in DOMAIN batch_features.user_features :
          batch_features.user_features[i].user_rating_count = 1
    /\ \E i \in DOMAIN batch_features.movie_features :
          batch_features.movie_features[i].movie_rating_count = 1
    /\ Len(ratings_df) = MaxRatings

\* the features on hand were compiled from the ratings file as it is now
Compiled ==
    /\ batch_features # EmptyDict
    /\ SumOf(batch_features.user_features, "user_rating_count") = Len(ratings_df)

\* C23: for every movie of a non-empty ratings file the quality score
\* (C * m + mean * n) / (C + n), C the mean rating count over the movies and
\* m the mean of all ratings, lies between the movie's own mean rating and
\* m: min(mean, m) <= quality score <= max(mean, m).
C23_QualityScoreBetweenMeans ==
    (Compiled /\ ratings_df # <<>>) =>
        \A i \in DOMAIN batch_features.movie_features :
            LET r == batch_features.movie_features[i]
                mean == r.movie_avg_rating
                m == Mean(ratings_df, "rating")
            IN /\ LessEq(mean, r.movie_quality_score) \/ LessEq(m, r.movie_quality_score)
               /\ LessEq(r.movie_quality_score, mean) \/ LessEq(r.movie_quality_score, m)

\* the genre names of movies_df in their natural sort order
SortedGenres == <<"Action", "Comedy", "Drama">>
Rank(genre) == CHOOSE k \in DOMAIN SortedGenres : SortedGenres[k] = genre

\* the rows of the ratings file in which user_idx rated a movie whose genres
\* text lists the genre
Carrying(user_idx, genre) ==
    {i \in DOMAIN ratings_df :
        /\ ratings_df[i].user_idx = user_idx
        /\ \E k \in DOMAIN movies_df :
              /\ movies_df[k].movie_idx = ratings_df[i].movie_idx
              /\ movies_df[k].genres # NaN
              /\ movies_df[k].genres # NoGenresListed
              /\ \E j \in DOMAIN movies_df[k].genres.names :
                    movies_df[k].genres.names[j] = genre}

Tally(user_idx, genre) == Cardinality(Carrying(user_idx, genre))

RECURSIVE SumOfRatings(_)
SumOfRatings(S) ==
    IF S = {} THEN 0
    ELSE LET i == CHOOSE i \in S : TRUE
         IN ratings_df[i].rating + SumOfRatings(S \ {i})

\* C24: a user's dominant genre has the largest tally among the user's
\* ratings (every genre of a pipe-delimited text credited once per rating);
\* among genres sharing the largest tally it is the lowest in the natural
\* sort order, whatever the order of the rows; the recorded count is its
\* tally and the recorded rating the mean rating of the rows carrying it.
C24_DominantGenreLowestOfLargest ==
    Compiled =>
        \A i \in DOMAIN batch_features.user_movie_features :
            LET r == batch_features.user_movie_features[i]
                top == r.user_favorite_genre
                tally == Tally(r.user_idx, top)
            IN top # Unknown =>
                /\ \A k \in DOMAIN SortedGenres :
                      \/ Tally(r.user_idx, SortedGenres[k]) < tally
                      \/ /\ Tally(r.user_idx, SortedGenres[k]) = tally
                         /\ Rank(top) <= k
                /\ r.user_favorite_genre_count = tally
                /\ r.user_favorite_genre_avg_rating
                      = Div(FromInt(SumOfRatings(Carrying(r.user_idx, top))),
                            FromInt(tally))

\* the rows of the ratings file of user_idx
RowsOf(user_idx) == {i \in DOMAIN ratings_df : ratings_df[i].user_idx = user_idx}

\* movies_df holds genre names for the movie: a row with a text that is not
\* the '(no genres listed)' marker
HasGenres(movie_idx) ==
    \E k \in DOMAIN movies_df :
        /\ movies_df[k].movie_idx = movie_idx
        /\ movies_df[k].genres # NaN
        /\ movies_df[k].genres # NoGenresListed

\* C25: a user all of whose ratings refer to movies without genres (no
\* genres text, the '(no genres listed)' marker, or no row in movies_df) is
\* compiled without failure to the dominant genre "Unknown" with count 0 and
\* rating 0, and appears exactly once in user_movie_features.
C25_NoGenresGivesUnknown ==
    Compiled =>
        \A user_idx \in BatchUsers :
            (/\ RowsOf(user_idx) # {}
             /\ \A i \in RowsOf(user_idx) : ~HasGenres(ratings_df[i].movie_idx))
            => /\ Cardinality({k \in DOMAIN batch_features.user_movie_features :
                      batch_features.user_movie_features[k].user_idx = user_idx}) = 1
               /\ \A k \in DOMAIN batch_features.user_movie_features :
                      LET r == batch_features.user_movie_features[k] IN
                      r.user_idx = user_idx =>
                          /\ r.user_favorite_genre = Unknown
                          /\ r.user_favorite_genre_count = 0
                          /\ r.user_favorite_genre_avg_rating = FromInt(0)

\* compiled: one user rated the movie without a genres text and the movie
\* without a row, the other the movie with the marker
C25_AllKindsOfMissingGenres ==
    /\ Compiled
    /\ \E u \in BatchUsers, i \in DOMAIN ratings_df :
          /\ ratings_df[i].user_idx = u
          /\ \A j \in RowsOf(u) : ~HasGenres(ratings_df[j].movie_idx)
          /\ \E k \in DOMAIN movies_df :
                /\ movies_df[k].movie_idx = ratings_df[i].movie_idx
                /\ movies_df[k].genres = NaN
    /\ \E u \in BatchUsers, i \in DOMAIN ratings_df :
          /\ ratings_df[i].user_idx = u
          /\ \A k \in DOMAIN movies_df :
                movies_df[k].movie_idx # ratings_df[i].movie_idx

\* compiled: a user rated nothing but the movie with the marker
C25_MarkerOnly ==
    /\ Compiled
    /\ \E u \in BatchUsers :
          /\ RowsOf(u) # {}
          /\ \A i \in RowsOf(u) :
                \E k \in DOMAIN movies_df :
                    /\ movies_df[k].movie_idx = ratings_df[i].movie_idx
                    /\ movies_df[k].genres = NoGenresListed

\* the rows of the ratings file about one entity
RowsAbout(key, id) == {i \in DOMAIN ratings_df : ratings_df[i][key] = id}

\* x is the float nearest to num / den, for a float between 1 and 2^MantissaBits
Nearest(x, num, den) ==
    LET diff == Num(x) * den - num * Den(x)
    IN 2 * (IF diff < 0 THEN -diff ELSE diff) <= den

\* the record of an entity has the count, least, greatest, range and mean
\* of its ratings, and a positive deviation when its ratings differ
Aggregated(rows, count, min, max, range, mean, std) ==
    /\ count = Cardinality(rows)
    /\ \E i \in rows : min = ratings_df[i].rating
    /\ \A i \in rows : min <= ratings_df[i].rating
    /\ \E i \in rows : max = ratings_df[i].rating
    /\ \A i \in rows : max >= ratings_df[i].rating
    /\ range = max - min
    /\ Nearest(mean, SumOfRatings(rows), Cardinality(rows))
    /\ (\E i, j \in rows : ratings_df[i].rating # ratings_df[j].rating)
          => (std # NaN /\ std.sqrt_num > 0)

\* C26: every user and every movie of the ratings file has exactly one
\* compiled record, with count = the number of its ratings, min and max its
\* least and greatest rating, range = max - min, mean = the sum of its
\* ratings / count, and a standard deviation > 0 when two of its ratings
\* differ; ratings 4.0 and 5.0 give count 2, mean 4.5, min 4.0, max 5.0,
\* range 1.0 and std > 0.
C26_AggregatesPerEntity ==
    Compiled =>
        /\ \A user_idx \in BatchUsers :
              Cardinality({k \in DOMAIN batch_features.user_features :
                  batch_features.user_features[k].user_idx = user_idx})
                  = (IF RowsAbout("user_idx", user_idx) # {} THEN 1 ELSE 0)
        /\ \A movie_idx \in BatchMovies :
              Cardinality({k \in DOMAIN batch_features.movie_features :
                  batch_features.movie_features[k].movie_idx = movie_idx})
                  = (IF RowsAbout("movie_idx", movie_idx) # {} THEN 1 ELSE 0)
        /\ \A k \in DOMAIN batch_features.user_features :
              LET r == batch_features.user_features[k] IN
              /\ Aggregated(RowsAbout("user_idx", r.user_idx), r.user_rating_count,
                            r.user_min_rating, r.user_max_rating,
                            r.user_rating_range, r.user_avg_rating,
                            r.user_rating_std)
              /\ (r.user_rating_count = 2 /\ r.user_min_rating = 4
                                          /\ r.user_max_rating = 5)
                    => (2 * Num(r.user_avg_rating) = 9 * Den(r.user_avg_rating)
                        /\ r.user_rating_range = 1)
        /\ \A k \in DOMAIN batch_features.movie_features :
              LET r == batch_features.movie_features[k] IN
              Aggregated(RowsAbout("movie_idx", r.movie_idx), r.movie_rating_count,
                         r.movie_min_rating, r.movie_max_rating,
                         r.movie_rating_range, r.movie_avg_rating,
                         r.movie_rating_std)

\* compiled: a user who rated one movie 4 and then 5
C26_RatedFourAndFive ==
    /\ Compiled
    /\ \E k \in DOMAIN batch_features.user_features :
          LET r == batch_features.user_features[k] IN
          /\ r.user_rating_count = 2
          /\ r.user_min_rating = 4 /\ r.user_max_rating = 5
          /\ r.user_rating_std.sqrt_num > 0
    /\ \E k \in DOMAIN batch_features.movie_features :
          batch_features.movie_features[k].movie_rating_count = 2
    /\ ratings_df[1].rating = 4 /\ ratings_df[1].timestamp = 100
    /\ ratings_df[2].rating = 5 /\ ratings_df[2].timestamp = 200

\* the errors the validation of recommend raises
ValidationErrors == {"invalid_input", "user_not_found"}

C28_PushWritesAccumulatorCounter ==
    (reply # EmptyDict /\ reply.op = "update" /\ reply.status = 200) =>
        online["user_stream_features"][reply.id].user_recent_activity
            = stream_features.user_recent_activity[reply.id]

\* the ids that received an event, and the movie ids that received a view or
\* a click
ActiveUsers == {u \in ValidIds : n_applied[u] > 0}
ActiveMovies == {m \in ValidIds : n_attention[m] > 0}

\* C30: after any sequence of applies the counts of Stats (and of the health
\* check) are exact: active users = the distinct user ids with at least one
\* event, active items = the distinct movie ids with at least one view or
\* click; a rating or search event never creates an item entry, and the
\* popularity and recent-views counters of every item are equal.
C30_StatsCountsExact ==
    /\ (conn[Client].kind = "resp" /\ conn[Client].op = "stats") =>
          /\ conn[Client].content.active_users = Cardinality(ActiveUsers)
          /\ conn[Client].content.active_movies = Cardinality(ActiveMovies)
    /\ (conn[Client].kind = "resp" /\ conn[Client].op = "health") =>
          /\ conn[Client].content.users = Cardinality(ActiveUsers)
          /\ conn[Client].content.movies = Cardinality(ActiveMovies)
    /\ DOMAIN stream_features.movie_popularity \subseteq ActiveMovies
    /\ \A m \in Ids :
          MovieSnapshot(m).movie_popularity = MovieSnapshot(m).movie_recent_views

====
